---- MODULE Spec2Model ----
(***************************************************************************)
(* Model of zabbix.com/pkg/metric (src/go/pkg/metric/metric.go): the       *)
(* schema of a metric's parameters (Param, Metric, New) and its evaluation *)
(* against raw arguments and named sessions (EvalParams, findSession,      *)
(* mergeWithSessionData), with the helper ordinalize.                      *)
(*                                                                         *)
(* Go values are modelled as follows.                                      *)
(*   *string                a sequence: << >> is nil, <<v>> points to v    *)
(*   map[string]string      a function whose DOMAIN is the set of keys     *)
(*   []string, []*Param     a sequence; the source's 0-based index i reads *)
(*                          element i + 1 (see At)                         *)
(*   session interface{}    [found, fields]: found = FALSE is nil; fields  *)
(*                          is the struct's fields in declaration order    *)
(*   error                  [kind, ord, name]; kind "nil" is no error      *)
(*   panic                  an outcome of its own (status "panic")         *)
(***************************************************************************)
EXTENDS Integers, Sequences, FiniteSets, TLC

VARIABLES
    newArgs,     \* the arguments of the call of New: [called, params, varParam]
    metric,      \* the *Metric New returned: [built, params, varParam]
    newPanic,    \* the message New panicked with, "" when it did not
    rawParams,   \* EvalParams' argument rawParams of the last call
    sessions,    \* EvalParams' argument sessions of the last call
    result,      \* what the last call of EvalParams returned
    num,         \* ordinalize's argument
    ord          \* what ordinalize returned for num ("" before the call)

vars == <<newArgs, metric, newPanic, rawParams, sessions, result, num, ord>>

----------------------------------------------------------------------------
(* Bounds of the model. *)

MaxParams == 3
MaxRaw == 3
MaxNum == 125

----------------------------------------------------------------------------
(* paramKind and the required/optional constants. *)

kindSession == 0
kindConn == 1
kindGeneral == 2

required == TRUE
optional == FALSE

NilString == << >>
NoValidator == "nil"

At(seq, i) == seq[i + 1]

EmptyMap == [n \in {} |-> ""]

Put(out, k, v) == [n \in (DOMAIN out) \cup {k} |-> IF n = k THEN v ELSE out[n]]

----------------------------------------------------------------------------
(* Validators.  A Validator is the set of the values it accepts; the one   *)
(* used here accepts the single value "a".                                 *)

Validators == {NoValidator, "onlyA"}

Validate(validator, val) ==
    CASE validator = "onlyA" -> val = "a"
      [] OTHER -> TRUE

----------------------------------------------------------------------------
(* Param and its builders. *)

Panicked(msg) == [panic |-> msg]

IsParam(p) == "panic" \notin DOMAIN p

newParam(name, kind, req, validator) ==
    IF name = ""
    THEN Panicked("name cannot be empty")
    ELSE [name |-> name, kind |-> kind, required |-> req,
          validator |-> validator, defaultValue |-> NilString]

NewParam(name) == newParam(name, kindGeneral, optional, NoValidator)

NewConnParam(name) == newParam(name, kindConn, optional, NoValidator)

WithSession(p) ==
    IF ~IsParam(p) THEN p
    ELSE IF p.kind # kindConn
    THEN Panicked("only connection typed parameter can be transformed to session")
    ELSE [p EXCEPT !.kind = kindSession]

WithDefault(p, value) ==
    IF ~IsParam(p) THEN p
    ELSE IF p.required
    THEN Panicked("default value cannot be applied to a required parameter")
    ELSE [p EXCEPT !.defaultValue = <<value>>]

WithValidator(p, validator) ==
    IF ~IsParam(p) THEN p
    ELSE [p EXCEPT !.validator = validator]

SetRequired(p) ==
    IF ~IsParam(p) THEN p
    ELSE IF p.defaultValue # NilString
    THEN Panicked("required parameter cannot have a default value")
    ELSE [p EXCEPT !.required = required]

----------------------------------------------------------------------------
(* ordinalize.  strconv.Itoa is the decimal digits, most significant       *)
(* first; ordinalDictionary is indexed by num itself, and a key the map    *)
(* does not hold reads as the empty string.                                *)

Digit(d) ==
    CASE d = 0 -> "0" [] d = 1 -> "1" [] d = 2 -> "2" [] d = 3 -> "3"
      [] d = 4 -> "4" [] d = 5 -> "5" [] d = 6 -> "6" [] d = 7 -> "7"
      [] d = 8 -> "8" [] d = 9 -> "9"

RECURSIVE Itoa(_)
Itoa(n) == IF n < 10 THEN Digit(n) ELSE Itoa(n \div 10) \o Digit(n % 10)

ordinalDictionary(key) ==
    CASE key = 0 -> "th" [] key = 1 -> "st" [] key = 2 -> "nd" [] key = 3 -> "rd"
      [] key \in 4..9 -> "th"
      [] OTHER -> ""

ordinalize(n) ==
    IF ((n % 100) >= 11) /\ ((n % 100) <= 13)
    THEN Itoa(n) \o "th"
    ELSE Itoa(n) \o ordinalDictionary(n)

----------------------------------------------------------------------------
(* New.  The loop over params is the recursion newLoop; it yields the      *)
(* text of the panic that ends it, or "" when the loop runs to its end.    *)
(* The formatted parts of the panic messages (the parameter's name, the    *)
(* default value) are left out of the text.                                *)

initConnParamIdx(params) ==
    IF Len(params) > 0 /\ At(params, 0).kind # kindGeneral THEN 0 ELSE -1

\* connNotInRow letting one parameter stand between two connection parameters
connNotInRowLoose(i, connParamIdx) == i - connParamIdx > 2

connNotInRow(i, connParamIdx) == i - connParamIdx > 1

defaultInvalid(p) ==
    /\ p.validator # NoValidator
    /\ p.defaultValue # NilString
    /\ ~Validate(p.validator, p.defaultValue[1])

RECURSIVE newLoop(_, _, _, _)
newLoop(params, i, connParamIdx, paramsMap) ==
    IF i >= Len(params) THEN ""
    ELSE LET p == At(params, i) IN
         IF p.name \in paramsMap
         THEN "name of parameter must be unique"
         ELSE IF i > 0 /\ p.kind = kindSession
         THEN "session must be placed first"
         ELSE IF p.kind = kindConn /\ connNotInRow(i, connParamIdx)
         THEN "parameters describing a connection must be placed in a row"
         ELSE IF defaultInvalid(p)
         THEN "invalid default value for " \o ordinalize(i + 1) \o " parameter"
         ELSE newLoop(params, i + 1,
                      IF p.kind = kindConn THEN i ELSE connParamIdx,
                      paramsMap \cup {p.name})

NewPanics(params) == newLoop(params, 0, initConnParamIdx(params), {})

NoMetric == [built |-> FALSE, params |-> << >>, varParam |-> FALSE]

----------------------------------------------------------------------------
(* The outcomes of EvalParams and of mergeWithSessionData. *)

NoErr == [kind |-> "nil", ord |-> "", name |-> ""]

ErrorTooManyParameters == [kind |-> "TooManyParameters", ord |-> "", name |-> ""]

\* zbxerr.ErrorTooFewParameters.Wrap(fmt.Errorf("%s parameter %q is required", ...))
ErrorTooFewParameters(ordNum, name) ==
    [kind |-> "TooFewParameters", ord |-> ordNum, name |-> name]

\* zbxerr.New(fmt.Sprintf("invalid %s parameter %q", ...)).Wrap(err)
ErrorInvalidValue(ordNum, name) ==
    [kind |-> "InvalidValue", ord |-> ordNum, name |-> name]

\* zbxerr.ErrorInvalidParams.Wrap(fmt.Errorf("%s parameter %q cannot be passed ..."))
ErrorInvalidParams(ordNum, name) ==
    [kind |-> "InvalidParams", ord |-> ordNum, name |-> name]

Returned(out) ==
    [status |-> "ok", paramsNil |-> FALSE, params |-> out, err |-> NoErr]

Failed(err) ==
    [status |-> "error", paramsNil |-> TRUE, params |-> EmptyMap, err |-> err]

Aborted(msg) ==
    [status |-> "panic", paramsNil |-> TRUE, params |-> EmptyMap,
     err |-> [kind |-> "panic", ord |-> "", name |-> msg]]

NotCalled ==
    [status |-> "none", paramsNil |-> TRUE, params |-> EmptyMap, err |-> NoErr]

----------------------------------------------------------------------------
(* findSession. *)

NilSession == [found |-> FALSE, fields |-> << >>]

findSession(name, sess) ==
    IF name \in DOMAIN sess
    THEN [found |-> TRUE, fields |-> sess[name]]
    ELSE NilSession

----------------------------------------------------------------------------
(* mergeWithSessionData.  The loop over the struct's fields is mergeLoop,  *)
(* one field is mergeField.                                                *)

\* the inner loop: the index j it ends with (the match, or the last index)
findParamIdx(metricParams, fieldName) ==
    LET hits == {j \in 0..(Len(metricParams) - 1) : At(metricParams, j).name = fieldName}
    IN IF hits # {}
       THEN CHOOSE j \in hits : \A k \in hits : j <= k
       ELSE IF Len(metricParams) = 0 THEN 0 ELSE Len(metricParams) - 1

paramInSchema(metricParams, fieldName) ==
    \E j \in 0..(Len(metricParams) - 1) : At(metricParams, j).name = fieldName

sessionValue(p, val) ==
    IF val = "" /\ p.defaultValue # NilString THEN p.defaultValue[1] ELSE val

sessionValueInvalid(p, val) ==
    p.validator # NoValidator /\ ~Validate(p.validator, val)

\* mergeStore losing the value
mergeStoreDropped(out, p, val) == out

mergeStore(out, p, val) == Put(out, p.name, val)

mergeField(out, metricParams, field) ==
    LET j == findParamIdx(metricParams, field.name)
        ordNum == ordinalize(j + 1)
    IN IF ~paramInSchema(metricParams, field.name)
       THEN Aborted("cannot find parameter in schema")
       ELSE LET p == At(metricParams, j)
                val == sessionValue(p, field.value)
            IN IF field.value = "" /\ p.required
               THEN Failed(ErrorTooFewParameters(ordNum, p.name))
               ELSE IF sessionValueInvalid(p, val)
               THEN Failed(ErrorInvalidValue(ordNum, p.name))
               ELSE Returned(mergeStore(out, p, val))

RECURSIVE mergeLoop(_, _, _, _)
mergeLoop(out, metricParams, fields, i) ==
    IF i >= Len(fields) THEN Returned(out)
    ELSE LET r == mergeField(out, metricParams, At(fields, i))
         IN IF r.status # "ok" THEN r
            ELSE mergeLoop(r.params, metricParams, fields, i + 1)

mergeWithSessionData(out, metricParams, session) ==
    mergeLoop(out, metricParams, session.fields, 0)

----------------------------------------------------------------------------
(* EvalParams.  The loop over m.params is evalLoop, one iteration is       *)
(* evalParam, whose status "ok" stands for reaching the end of the loop    *)
(* body (or a continue) with the mapping params.                           *)

\* tooManyParams letting one extra argument through
tooManyParamsOffByOne(m, raw) == ~m.varParam /\ Len(raw) > Len(m.params) + 1

tooManyParams(m, raw) == ~m.varParam /\ Len(raw) > Len(m.params)

\* effectiveKind without the fall back of an unresolved session to a connection
effectiveKindUncoerced(p) == p.kind

effectiveKind(p) == IF p.kind = kindSession THEN kindConn ELSE p.kind

skipConnIfSessionIsSet(session, kind) == ~(session.found /\ kind = kindConn)

\* isMissing taking an empty argument for a value
isMissingLengthOnly(raw, i) == i >= Len(raw)

isMissing(raw, i) == i >= Len(raw) \/ At(raw, i) = ""

\* storeConn accepting a connection value along with a session
storeConnIgnoringSession(out, p, val, session, ordNum) ==
    Returned(Put(out, p.name, val))

storeConn(out, p, val, session, ordNum) ==
    IF ~session.found
    THEN Returned(Put(out, p.name, val))
    ELSE Failed(ErrorInvalidParams(ordNum, p.name))

evalParam(out, raw, session, i, p) ==
    IF p.kind = kindSession /\ session.found THEN Returned(out)
    ELSE LET kind == effectiveKind(p)
             skip == skipConnIfSessionIsSet(session, kind)
             ordNum == ordinalize(i + 1)
             val == IF isMissing(raw, i)
                    THEN IF p.defaultValue # NilString /\ skip
                         THEN p.defaultValue ELSE NilString
                    ELSE <<At(raw, i)>>
         IN IF isMissing(raw, i) /\ p.required /\ skip
            THEN Failed(ErrorTooFewParameters(ordNum, p.name))
            ELSE IF val = NilString THEN Returned(out)
            ELSE IF p.validator # NoValidator /\ skip /\ ~Validate(p.validator, val[1])
            THEN Failed(ErrorInvalidValue(ordNum, p.name))
            ELSE IF kind = kindConn THEN storeConn(out, p, val[1], session, ordNum)
            ELSE IF kind = kindGeneral THEN Returned(Put(out, p.name, val[1]))
            ELSE Returned(out)

RECURSIVE evalLoop(_, _, _, _, _)
evalLoop(out, m, raw, session, i) ==
    IF i >= Len(m.params) THEN Returned(out)
    ELSE LET r == evalParam(out, raw, session, i, At(m.params, i))
         IN IF r.status # "ok" THEN r
            ELSE evalLoop(r.params, m, raw, session, i + 1)

evalParams(m, raw, sess) ==
    IF tooManyParams(m, raw) THEN Failed(ErrorTooManyParameters)
    ELSE IF Len(raw) > 0 /\ Len(m.params) = 0
    THEN Aborted("index out of range [0] with length 0")
    ELSE LET session == IF Len(raw) > 0 /\ At(m.params, 0).kind = kindSession
                        THEN findSession(At(raw, 0), sess)
                        ELSE NilSession
             r == evalLoop(EmptyMap, m, raw, session, 0)
         IN IF r.status # "ok" THEN r
            ELSE IF session.found
            THEN mergeWithSessionData(r.params, m.params, session)
            ELSE r

----------------------------------------------------------------------------
(* The inputs the model draws from. *)

SeqsUpTo(S, n) == UNION {[1..k -> S] : k \in 0..n}

\* Parameter descriptions as a plugin builds them, with the builders above.
ParamCandidates ==
    { WithSession(NewConnParam("session")),
      WithSession(SetRequired(NewConnParam("session"))),
      SetRequired(NewConnParam("user")),
      SetRequired(NewConnParam("pass")),
      WithValidator(NewConnParam("user"), "onlyA"),
      WithDefault(NewConnParam("pass"), "a"),
      SetRequired(NewParam("host")),
      WithValidator(WithDefault(NewParam("port"), "a"), "onlyA"),
      WithDefault(WithValidator(NewParam("port"), "onlyA"), "b"),
      WithDefault(SetRequired(NewParam("host")), "a"),
      WithSession(NewParam("session")),
      NewParam("") }

\* the chains of builders that do not panic
ParamPool == {p \in ParamCandidates : IsParam(p)}

\* The raw parameters of a key: an empty one, plain values, and the names a
\* session could have, which a key gives as its first parameter only.
PlainValues == {"", "a", "b"}
SessionNames == {"db1", "user1"}

RawLists ==
    UNION { { raw \in [1..k -> PlainValues \cup SessionNames] :
                  \A i \in 2..k : raw[i] \in PlainValues }
            : k \in 0..MaxRaw }

\* The session struct: its fields in declaration order, each one present or
\* not in the struct type at hand, and the values a field can hold.
SessionFieldNames == <<"user", "pass">>
FieldValues == PlainValues

SessionStructs ==
    LET n == Len(SessionFieldNames)
        pick(I) == [k \in 1..Cardinality(I) |->
                        CHOOSE i \in I : Cardinality({j \in I : j < i}) = k - 1]
    IN UNION { { [k \in 1..Cardinality(I) |->
                    [name |-> SessionFieldNames[pick(I)[k]], value |-> vals[k]]]
                 : vals \in [1..Cardinality(I) -> FieldValues] }
               : I \in SUBSET (1..n) }

\* the sessions of the configuration file: none, or the one named "db1"
SessionMaps == {EmptyMap} \cup {("db1" :> st) : st \in SessionStructs}

----------------------------------------------------------------------------
(* The state machine: a plugin builds one Metric with New, the agent then  *)
(* evaluates one key's raw parameters with EvalParams.                     *)

NoArgs == [called |-> FALSE, params |-> << >>, varParam |-> FALSE]

Init ==
    /\ newArgs = NoArgs
    /\ metric = NoMetric
    /\ newPanic = ""
    /\ rawParams = << >>
    /\ sessions = EmptyMap
    /\ result = NotCalled
    /\ num = 0
    /\ ord = ""

New ==
    /\ ~newArgs.called
    /\ \E params \in SeqsUpTo(ParamPool, MaxParams), varParam \in BOOLEAN :
           /\ newArgs' = [called |-> TRUE, params |-> params, varParam |-> varParam]
           /\ newPanic' = NewPanics(params)
           /\ metric' = IF NewPanics(params) = ""
                        THEN [built |-> TRUE, params |-> params, varParam |-> varParam]
                        ELSE metric
    /\ UNCHANGED <<rawParams, sessions, result, num, ord>>

EvalParams ==
    /\ metric.built
    /\ result.status = "none"
    /\ \E raw \in RawLists, sess \in SessionMaps :
           /\ rawParams' = raw
           /\ sessions' = sess
           /\ result' = evalParams(metric, raw, sess)
    /\ UNCHANGED <<newArgs, metric, newPanic, num, ord>>

Next ==
    \/ New
    \/ EvalParams

Spec == Init /\ [][Next]_vars

(* ordinalize on its own: one call for each position up to MaxNum. *)

InitOrdinalize ==
    /\ newArgs = NoArgs
    /\ metric = NoMetric
    /\ newPanic = ""
    /\ rawParams = << >>
    /\ sessions = EmptyMap
    /\ result = NotCalled
    /\ num \in 1..MaxNum
    /\ ord = ""

Ordinalize ==
    /\ ord = ""
    /\ ord' = ordinalize(num)
    /\ UNCHANGED <<newArgs, metric, newPanic, rawParams, sessions, result, num>>

NextOrdinalize == Ordinalize

SpecOrdinalize == InitOrdinalize /\ [][NextOrdinalize]_vars

----------------------------------------------------------------------------
(* Vocabulary of the properties.  Positions are 1-based here: position i   *)
(* is the source's index i - 1.                                            *)

Called == result.status # "none"

NParams == Len(metric.params)

\* the first raw argument names a session of the session source
SessionResolved ==
    /\ Len(rawParams) > 0
    /\ NParams > 0
    /\ metric.params[1].kind = kindSession
    /\ rawParams[1] \in DOMAIN sessions

ResolvedFields == sessions[rawParams[1]]

\* no raw argument at position i, or an empty one
Absent(i) == i > Len(rawParams) \/ rawParams[i] = ""

\* the arity check of step 1 fails
ArityExceeded == ~metric.varParam /\ Len(rawParams) > NParams

\* the raw argument at position i is there and its validator rejects it
RejectedRaw(i) ==
    /\ ~Absent(i)
    /\ metric.params[i].validator # NoValidator
    /\ ~Validate(metric.params[i].validator, rawParams[i])

\* the ordinal text the specification asks for
SpecSuffix(n) ==
    IF (n % 100) \in {11, 12, 13} THEN "th"
    ELSE CASE n % 10 = 1 -> "st"
           [] n % 10 = 2 -> "nd"
           [] n % 10 = 3 -> "rd"
           [] OTHER -> "th"

SpecOrdinal(n) == Itoa(n) \o SpecSuffix(n)

\* the schema of scenarios C, D and E
ScenarioParams ==
    << WithSession(NewConnParam("session")),
       SetRequired(NewConnParam("user")),
       SetRequired(NewConnParam("pass")) >>

----------------------------------------------------------------------------
(* C1: a non-variadic schema with n declared parameters, called with more  *)
(* than n raw arguments, returns the TooManyParameters error and no        *)
(* mapping, whatever the arguments and the sessions are (n = 0 included).  *)
C1_TooManyParameters ==
    (Called /\ ~metric.varParam /\ Len(rawParams) > NParams)
        => /\ result.status = "error"
           /\ result.err = ErrorTooManyParameters
           /\ result.paramsNil

C1_Witness ==
    /\ Called
    /\ ~metric.varParam
    /\ NParams = 0
    /\ Len(rawParams) = 2
    /\ result.err.kind = "TooManyParameters"

----------------------------------------------------------------------------
(* C2, as stated: when some required parameter is absent from the raw      *)
(* arguments and no session is resolved, EvalParams fails with             *)
(* TooFewParameters naming the ordinal and the name of such a parameter.   *)
C2_AsStated ==
    (/\ Called
     /\ ~SessionResolved
     /\ \E i \in 1..NParams : metric.params[i].required /\ Absent(i))
        => \E i \in 1..NParams :
               /\ metric.params[i].required
               /\ Absent(i)
               /\ result.status = "error"
               /\ result.err =
                      ErrorTooFewParameters(SpecOrdinal(i), metric.params[i].name)

(* C2, amended: when no session is resolved, the arity check passes, i is  *)
(* the first position of an absent required parameter and no raw argument  *)
(* before i is rejected by its validator, EvalParams fails with            *)
(* TooFewParameters whose message holds the ordinal text of position i, as *)
(* ordinalize renders it, and the name of the parameter at i.              *)
C2_TooFewParameters ==
    (Called /\ ~SessionResolved /\ ~ArityExceeded)
        => \A i \in 1..NParams :
               (/\ metric.params[i].required
                /\ Absent(i)
                /\ \A j \in 1..(i - 1) :
                       /\ ~(metric.params[j].required /\ Absent(j))
                       /\ ~RejectedRaw(j))
                   => /\ result.status = "error"
                      /\ result.paramsNil
                      /\ result.err.kind = "TooFewParameters"
                      /\ result.err.ord = ordinalize(i)
                      /\ result.err.ord = SpecOrdinal(i) \/ i >= 10
                      /\ result.err.name = metric.params[i].name

C2_Witness ==
    /\ Called
    /\ ~SessionResolved
    /\ NParams = 3
    /\ Len(rawParams) = 2
    /\ ~Absent(1) /\ Absent(2)
    /\ metric.params[2].required
    /\ result.err = ErrorTooFewParameters("2nd", metric.params[2].name)

----------------------------------------------------------------------------
(* C3, as stated: when the first raw argument resolves to a session and    *)
(* the raw arguments hold a non-empty value at the position of a           *)
(* Connection-role parameter, EvalParams fails with InvalidParams.         *)
C3_AsStated ==
    (/\ Called
     /\ SessionResolved
     /\ \E i \in 1..NParams : metric.params[i].kind = kindConn /\ ~Absent(i))
        => /\ result.status = "error"
           /\ result.err.kind = "InvalidParams"

(* C3, amended: the same, provided the arity check passes (the schema is   *)
(* variadic or there are no more raw arguments than declared parameters);  *)
(* the error names the first such Connection-role parameter.               *)
C3_InvalidParams ==
    (/\ Called
     /\ SessionResolved
     /\ ~ArityExceeded)
        => \A i \in 1..NParams :
               (/\ metric.params[i].kind = kindConn
                /\ ~Absent(i)
                /\ \A j \in 1..(i - 1) :
                       ~(metric.params[j].kind = kindConn /\ ~Absent(j)))
                   => /\ result.status = "error"
                      /\ result.paramsNil
                      /\ result.err.kind = "InvalidParams"
                      /\ result.err.name = metric.params[i].name

C3_Witness ==
    /\ Called
    /\ SessionResolved
    /\ metric.params = ScenarioParams
    /\ rawParams = <<"db1", "a", "b">>
    /\ result.err = ErrorInvalidParams("2nd", "user")

----------------------------------------------------------------------------
(* C4.  Its case: the first raw argument resolves to a session and no      *)
(* value is supplied directly at the position of a Connection-role         *)
(* parameter.                                                              *)

SessionOnly ==
    /\ Called
    /\ SessionResolved
    /\ \A i \in 1..NParams : metric.params[i].kind = kindConn => Absent(i)

\* each Connection-role parameter named by a session field with a
\* non-empty value holds that value in the returned mapping
SessionValuesMapped ==
    \A k \in 1..Len(ResolvedFields) :
        LET f == ResolvedFields[k] IN
        (/\ f.value # ""
         /\ \E i \in 1..NParams :
                metric.params[i].name = f.name /\ metric.params[i].kind = kindConn)
            => /\ f.name \in DOMAIN result.params
               /\ result.params[f.name] = f.value

ScenarioC ==
    /\ metric.params = ScenarioParams
    /\ sessions = ("db1" :> << [name |-> "user", value |-> "a"],
                               [name |-> "pass", value |-> "b"] >>)
    /\ rawParams = <<"db1">>

(* C4, as stated: in that case EvalParams succeeds, and the mapping holds  *)
(* the session's non-empty values under the names of the Connection-role   *)
(* parameters.                                                             *)
C4_AsStated ==
    SessionOnly => (result.status = "ok" /\ SessionValuesMapped)

(* C4, amended: in that case EvalParams never fails with TooFewParameters  *)
(* on a Connection-role or Session-role parameter unless the session holds *)
(* an empty field of that name, and whenever it succeeds the mapping holds *)
(* the session's non-empty values under the names of the Connection-role   *)
(* parameters; in scenario C it succeeds with exactly {user: a, pass: b}.  *)
C4_SessionMerge ==
    SessionOnly =>
        /\ result.status = "ok" => SessionValuesMapped
        /\ (/\ result.err.kind = "TooFewParameters"
            /\ \E i \in 1..NParams :
                   /\ metric.params[i].name = result.err.name
                   /\ metric.params[i].kind # kindGeneral)
               => \E k \in 1..Len(ResolvedFields) :
                      /\ ResolvedFields[k].name = result.err.name
                      /\ ResolvedFields[k].value = ""
        /\ ScenarioC => /\ result.status = "ok"
                        /\ result.params = ("user" :> "a" @@ "pass" :> "b")

C4_Witness ==
    /\ SessionOnly
    /\ ScenarioC
    /\ result.status = "ok"
    /\ DOMAIN result.params = {"user", "pass"}

----------------------------------------------------------------------------
(* C5.  Scenario D: the schema of scenario C, raw arguments                *)
(* ["user1", "a", "b"], and no session named "user1".                      *)

ScenarioD ==
    /\ Called
    /\ metric.params = ScenarioParams
    /\ rawParams = <<"user1", "a", "b">>
    /\ "user1" \notin DOMAIN sessions

(* C5, as stated: EvalParams succeeds and the mapping is equal to          *)
(* {user: a, pass: b}.                                                     *)
C5_AsStated ==
    ScenarioD => /\ result.status = "ok"
                 /\ result.params = ("user" :> "a" @@ "pass" :> "b")

(* C5, amended: EvalParams succeeds and the mapping is equal to            *)
(* {session: user1, user: a, pass: b}: the unresolved first argument is    *)
(* stored as a connection value under the Session-role parameter's name.   *)
C5_ScenarioD ==
    ScenarioD => /\ result.status = "ok"
                 /\ result.params =
                        ("session" :> "user1" @@ "user" :> "a" @@ "pass" :> "b")

C5_Witness ==
    /\ ScenarioD
    /\ sessions # EmptyMap
    /\ result.status = "ok"
    /\ "session" \in DOMAIN result.params

----------------------------------------------------------------------------
(* C6: for every position n >= 1, ordinalize(n) is the decimal digits of n *)
(* followed by st, nd, rd or th as the last digit of n is 1, 2, 3 or       *)
(* another digit, except that it is th when n mod 100 is 11, 12 or 13.     *)
C6_Ordinalize ==
    ord # "" => ord = SpecOrdinal(num)

----------------------------------------------------------------------------
(* C7: for a variadic schema, the raw arguments beyond the declared count  *)
(* are ignored: EvalParams never fails with TooManyParameters and returns  *)
(* what it returns for the raw arguments cut to the declared count (so it  *)
(* does not abort where the cut list does not).                            *)
C7_Variadic ==
    (Called /\ metric.varParam)
        => /\ result.err.kind # "TooManyParameters"
           /\ Len(rawParams) > NParams
                  => result = evalParams(metric, SubSeq(rawParams, 1, NParams), sessions)

----------------------------------------------------------------------------
(* C8: every parameter list New accepts has distinct names, a Session-role *)
(* parameter at the first position only, and its Connection-role and       *)
(* Session-role parameters at exactly the first k positions for some       *)
(* k >= 0; New panics, and builds no Metric, for every list that is not so.*)

WellFormed(params) ==
    /\ \A i, j \in 1..Len(params) : i # j => params[i].name # params[j].name
    /\ \A i \in 1..Len(params) : params[i].kind = kindSession => i = 1
    /\ \E k \in 0..Len(params) :
           \A i \in 1..Len(params) : (params[i].kind # kindGeneral) <=> (i <= k)

C8_New ==
    newArgs.called
        => /\ newPanic = "" => (metric.built /\ WellFormed(metric.params))
           /\ ~WellFormed(newArgs.params) => (newPanic # "" /\ ~metric.built)

C8_Witness ==
    /\ newArgs.called
    /\ newPanic = ""
    /\ Len(metric.params) = 3
    /\ metric.params[1].kind = kindSession
    /\ metric.params[2].kind = kindConn
    /\ metric.params[3].kind = kindGeneral

----------------------------------------------------------------------------
(* C9: in the session merge, a session field that is empty, for a          *)
(* parameter that is not required and has no default, never makes          *)
(* EvalParams fail with a validation error.                                *)
C9_EmptyFieldNotValidated ==
    (Called /\ SessionResolved /\ result.err.kind = "InvalidValue")
        => ~ \E k \in 1..Len(ResolvedFields), i \in 1..NParams :
                 /\ ResolvedFields[k].name = result.err.name
                 /\ ResolvedFields[k].value = ""
                 /\ metric.params[i].name = result.err.name
                 /\ ~metric.params[i].required
                 /\ metric.params[i].defaultValue = NilString

----------------------------------------------------------------------------
(* C10: whenever EvalParams succeeds, every required parameter has a       *)
(* non-empty value in the returned mapping, except the Session-role        *)
(* parameter at the first position when a session was resolved.            *)
C10_RequiredPresent ==
    (Called /\ result.status = "ok")
        => \A i \in 1..NParams :
               (/\ metric.params[i].required
                /\ ~(i = 1 /\ metric.params[i].kind = kindSession /\ SessionResolved))
                   => /\ metric.params[i].name \in DOMAIN result.params
                      /\ result.params[metric.params[i].name] # ""

============================================================================
